---------------------------- MODULE Spec2Model ----------------------------
(***************************************************************************)
(* A model of pygelbooru (src/pygelbooru/gelbooru.py): the Gelbooru client *)
(* facade, its response handling, and the lazy caches of GelbooruImage and *)
(* GelbooruComment.                                                        *)
(*                                                                         *)
(* Every coroutine runs on one asyncio event loop, so the code between two *)
(* awaits is one atomic step.  A call is therefore modelled by one action  *)
(* from its start to its first network request (or to its return when it   *)
(* issues none), and one action per response, from the resumption after    *)
(* the await to the next request or to the return/raise.  The server is    *)
(* the environment: it answers with any status and any body.               *)
(*                                                                         *)
(* A lazy cache belongs to one record and no operation reads the cache of   *)
(* another record, so the model follows one GelbooruImage and one          *)
(* GelbooruComment among the records the operations return (any of them,   *)
(* chosen when it is returned); the other records are only counted.        *)
(*                                                                         *)
(* The ids, tags and exclude_tags arguments only shape the URL (_endpoint, *)
(* _format_tags); no operation branches on them, and they are left out.    *)
(***************************************************************************)
EXTENDS Integers, Sequences, FiniteSets, TLC

\* ------------------------------------------------------------- bounds
NumTasks    == 2    \* concurrently scheduled callers (asyncio tasks)
MaxLen      == 2    \* longest list of elements in one response
MaxCount    == 2    \* largest @count the server reports

\* -------------------------------------------------- program constants
OffsetCap     == 20000   \* randint(0, min(count, 20000))
DefaultLimit  == 100     \* search_posts(limit: int = 100)

Tasks == 1..NumTasks

None == "None"

\* Python truthiness of the values the model carries in payload fields.
Truthy(v) == v # None /\ v # ""

Min(a, b) == IF a <= b THEN a ELSE b

\* ------------------------------------------------------- the responses
Md5s == {"a", "b"}

\* One parsed XML element: the keys whose values the code branches on
\* (has_comments, read by GelbooruImage; @md5, read by is_deleted).  The other
\* fields (id, post_id, file_url, ...) are copied into the record or the URL
\* and decide nothing.
PostElems    == {[has_comments |-> None, md5 |-> "a"], [has_comments |-> "true", md5 |-> "b"]}
CommentElems == {[has_comments |-> None, md5 |-> None]}
TagElems     == {[has_comments |-> None, md5 |-> None]}

\* The keys of an element mapping: what iterating a dict yields.
ElemKeys == <<"has_comments", "@md5">>

\* The value under the inner key (post, tag, comment): absent, one mapping
\* (xmltodict gives a bare mapping for a single child) or a list of mappings
\* (two children or more).
InnerOf(E) ==
    {[kind |-> "absent", items |-> <<>>]}
    \cup {[kind |-> "map", items |-> <<e>>] : e \in E}
    \cup {[kind |-> "list", items |-> s] : s \in UNION {[1..n -> E] : n \in 2..MaxLen}}

\* A response body: not well-formed XML, or a document with one root element.
Malformed == [wf |-> FALSE, root |-> "", count |-> 0, inner |-> [kind |-> "absent", items |-> <<>>]]

\* A posts document is read for its @count (by random_post's probe) or for its
\* post elements (by everything else), never for both: the model gives every
\* count with no post, and every choice of posts with their number as count.
Bodies ==
    {Malformed}
    \cup [wf : {TRUE}, root : {"posts"}, count : 0..MaxCount,
          inner : {[kind |-> "absent", items |-> <<>>]}]
    \cup {[wf |-> TRUE, root |-> "posts", count |-> Min(Len(i.items), MaxCount), inner |-> i] :
            i \in InnerOf(PostElems)}
    \cup [wf : {TRUE}, root : {"comments"}, count : {0}, inner : InnerOf(CommentElems)]
    \cup [wf : {TRUE}, root : {"tags"}, count : {0}, inner : InnerOf(TagElems)]
    \cup [wf : {TRUE}, root : {"error"}, count : {0}, inner : {[kind |-> "absent", items |-> <<>>]}]

\* Sample bodies: not XML, an error document, a posts document.
ErrBodies ==
    {Malformed,
     [wf |-> TRUE, root |-> "error", count |-> 0, inner |-> [kind |-> "absent", items |-> <<>>]],
     [wf |-> TRUE, root |-> "posts", count |-> 1,
      inner |-> [kind |-> "map", items |-> <<[has_comments |-> "true", md5 |-> "a"]>>]]}

SuccessCodes == {200, 201}

\* What a call remembers of a response: the history the properties read.
\* first is the has_comments of the first element ("" when there is none).
Shape(status, body) ==
    [status |-> status, wf |-> body.wf, root |-> body.root,
     kind |-> body.inner.kind, n |-> Len(body.inner.items),
     first |-> IF body.inner.items = <<>> THEN "" ELSE body.inner.items[1].has_comments]

NoShape == [status |-> 0, wf |-> FALSE, root |-> "", kind |-> "absent", n |-> 0, first |-> ""]

\* The count a response reports: that of a posts document received with a
\* success status, -1 for anything else.
Reported(status, body) ==
    IF status \in SuccessCodes /\ body.wf /\ body.root = "posts" THEN body.count ELSE -1

\* ------------------------------------------------------------ outcomes
\* How a coroutine ends: a raise, or a return of None, a bool, one record
\* ("obj") or a Python list ("list").  elems are the payload elements the
\* records are built from; refs are the records once built.
NoOutcome == [k |-> "pending", exc |-> "", msg |-> "", body |-> <<>>, b |-> FALSE, elems |-> <<>>]

Raise(exc, msg, body) == [NoOutcome EXCEPT !.k = "raise", !.exc = exc, !.msg = msg, !.body = body]
ReturnNone            == [NoOutcome EXCEPT !.k = "None"]
ReturnBool(b)         == [NoOutcome EXCEPT !.k = "bool", !.b = b]
ReturnObj(e)          == [NoOutcome EXCEPT !.k = "obj", !.elems = <<e>>]
ReturnList(es)        == [NoOutcome EXCEPT !.k = "list", !.elems = es]


\* ------------------------------------------------------ record types
\* GelbooruImage.__init__: the field the code branches on, and the comment
\* cache, empty at construction.  ref is the identity of the object (0: no
\* object); populated is history: the cache has been assigned (a fetch has
\* succeeded).
GelbooruImage(payload, ref) ==
    [ref |-> ref, has_comments |-> payload.has_comments, comments |-> <<>>,
     populated |-> FALSE]

\* GelbooruComment.__init__: post is the identity of an Image, 0 for None.
\* live tells that the object exists; origin, tried and resolved are history:
\* the backreference given at construction; a get_post on the Comment has
\* ended / has returned an Image.
GelbooruComment(payload, post) ==
    [live |-> TRUE, post |-> post, origin |-> post, tried |-> FALSE, resolved |-> FALSE]

\* A variant of _request without the status test: C7 must fail with it.
_request_unchecked(status, body) ==
    [NoOutcome EXCEPT !.k = "response", !.body = <<body>>]

\* ------------------------------------------------- the transport layer
\* Gelbooru._request after its await: the body, or GelbooruException with the
\* body in its message when the status is neither 200 nor 201.
_request(status, body) ==
    IF status \notin SuccessCodes
    THEN Raise("GelbooruException", "non 200 status code", <<body>>)
    ELSE [NoOutcome EXCEPT !.k = "response", !.body = <<body>>]

\* ------------------------------------- the facade, after the response
\* Gelbooru.get_post from the await on: parse (no except clause), the outer
\* key test, then GelbooruImage(payload['posts']['post'], self).
get_post(status, body) ==
    LET r == _request(status, body) IN
    IF r.k = "raise" THEN r
    ELSE IF ~body.wf THEN Raise("ExpatError", "", <<>>)
    ELSE IF body.root # "posts" THEN Raise("GelbooruNotFoundException", "Could not find a post", <<>>)
    ELSE IF body.inner.kind = "absent" THEN Raise("KeyError", "post", <<>>)
    ELSE IF body.inner.kind = "list" THEN Raise("AttributeError", "list has no get", <<>>)
    ELSE ReturnObj(body.inner.items[1])

\* A variant of search_posts that forgets the limit = 1 case:
\* C6 must fail with it.
search_posts_list(status, body, limit) ==
    LET r == _request(status, body) IN
    IF r.k = "raise" THEN r
    ELSE IF ~body.wf THEN Raise("GelbooruException", "malformed response", <<>>)
    ELSE IF body.root # "posts" THEN ReturnList(<<>>)
    ELSE IF body.inner.kind = "absent" THEN ReturnList(<<>>)
    ELSE ReturnList(body.inner.items)

\* Gelbooru.search_posts from the await on.
search_posts(status, body, limit) ==
    LET r == _request(status, body) IN
    IF r.k = "raise" THEN r
    ELSE IF ~body.wf THEN Raise("GelbooruException", "malformed response", <<>>)
    ELSE IF body.root # "posts" THEN ReturnList(<<>>)
    ELSE IF body.inner.kind = "absent" THEN ReturnList(<<>>)
    ELSE LET result == body.inner.items   \* a list as is, a single mapping wrapped
         IN IF limit = 1 THEN ReturnObj(result[1]) ELSE ReturnList(result)

\* A variant of random_post without the count test: C3 must fail with it.
random_post_nocount(status, body) ==
    LET r == _request(status, body) IN
    IF r.k = "raise" THEN r
    ELSE IF ~body.wf THEN Raise("GelbooruException", "malformed response", <<>>)
    ELSE IF body.root # "posts" THEN Raise("KeyError", "posts", <<>>)
    ELSE [NoOutcome EXCEPT !.k = "offset"]

\* Gelbooru.random_post from its first await to the count test; "offset" stands
\* for the point where the offset is drawn.
random_post(status, body) ==
    LET r == _request(status, body) IN
    IF r.k = "raise" THEN r
    ELSE IF ~body.wf THEN Raise("GelbooruException", "malformed response", <<>>)
    ELSE IF body.root # "posts" THEN Raise("KeyError", "posts", <<>>)
    ELSE IF body.count = 0 THEN ReturnNone
    ELSE [NoOutcome EXCEPT !.k = "offset"]

\* The offsets randint(0, min(count, 20000)) may return: both ends included.
Offsets(count) == 0..Min(count, OffsetCap)

\* Gelbooru.tag_list from the await on: a list for a list, one GelbooruTag for
\* a single mapping.
tag_list(status, body) ==
    LET r == _request(status, body) IN
    IF r.k = "raise" THEN r
    ELSE IF ~body.wf THEN Raise("ExpatError", "", <<>>)
    ELSE IF body.root # "tags" THEN ReturnList(<<>>)
    ELSE IF body.inner.kind = "absent" THEN Raise("KeyError", "tag", <<>>)
    ELSE IF body.inner.kind = "list" THEN ReturnList(body.inner.items)
    ELSE ReturnObj(body.inner.items[1])

\* Gelbooru.get_comments from the await on.
get_comments(status, body) ==
    LET r == _request(status, body) IN
    IF r.k = "raise" THEN r
    ELSE IF ~body.wf THEN Raise("ExpatError", "", <<>>)
    ELSE IF body.root # "comments" THEN Raise("KeyError", "comments", <<>>)
    ELSE IF body.inner.kind = "absent" THEN ReturnList(<<>>)
    ELSE ReturnList(body.inner.items)

\* What "for p in payload['posts']['post']" yields: the elements of a list, the
\* keys of a mapping.
Iterate(inner) ==
    IF inner.kind = "list"
    THEN [i \in 1..Len(inner.items) |-> [isMapping |-> TRUE, md5 |-> inner.items[i].md5]]
    ELSE [i \in 1..Len(ElemKeys) |-> [isMapping |-> FALSE, md5 |-> ElemKeys[i]]]

\* Gelbooru.is_deleted from the await on: p['@md5'] for each p iterated, which
\* is a TypeError when p is a str.
is_deleted(status, body, image_md5) ==
    LET r == _request(status, body) IN
    IF r.k = "raise" THEN r
    ELSE IF ~body.wf THEN Raise("ExpatError", "", <<>>)
    ELSE IF body.root # "posts" THEN Raise("KeyError", "posts", <<>>)
    ELSE IF body.inner.kind = "absent" THEN Raise("KeyError", "post", <<>>)
    ELSE LET ps == Iterate(body.inner) IN
         IF \E i \in 1..Len(ps) : ~ps[i].isMapping
         THEN Raise("TypeError", "string indices must be integers", <<>>)
         ELSE ReturnBool(\E i \in 1..Len(ps) : ps[i].md5 = image_md5)

\* ------------------------------------------------------------ the state
VARIABLES
    image,      \* the GelbooruImage the model follows, if any yet
    comment,    \* the GelbooruComment the model follows, if any yet
    made,       \* the number of Images Comment.get_post has fetched
    task,       \* per caller: the call it is suspended in, if any
    ended       \* history: the call that ended in the last step, if one did

vars == <<image, comment, made, task, ended>>

NoImage   == [ref |-> 0, has_comments |-> None, comments |-> <<>>, populated |-> FALSE]
NoComment == [live |-> FALSE, post |-> 0, origin |-> 0, tried |-> FALSE, resolved |-> FALSE]

\* No call.  For a call: op, target, md5, limit, page are the call and its
\* arguments (target: the Image given to Gelbooru.get_comments, 0 for an
\* integer); pc is where the coroutine stands ("probe": random_post's first
\* await, "await": the last await of any operation, "done": returned or
\* raised); res and refs are its result (refs: the records returned, the
\* followed ones by identity, the others as 0).  The rest is history: calls
\* counts the network requests the call has issued; count is the count
\* random_post's probe reported (-1: none reported); resp is the shape of
\* the last response received; later/warm tell whether, when the call
\* started, a lazy fetch on its record had ended / had succeeded; pre is the
\* record's cache at that time.
NoCall ==
    [pc |-> "idle", op |-> "", target |-> 0, md5 |-> "", limit |-> 0, page |-> 0,
     calls |-> 0, count |-> -1, res |-> NoOutcome, refs |-> <<>>, resp |-> NoShape,
     later |-> FALSE, warm |-> FALSE, pre |-> <<>>]

Init ==
    /\ image = NoImage
    /\ comment = NoComment
    /\ made = 0
    /\ task = [t \in Tasks |-> NoCall]
    /\ ended = NoCall

LazyOps == {"Image.get_comments", "Comment.get_post"}

\* A caller can start a facade call when it is not suspended in one.  The
\* Gelbooru object holds nothing but its credentials, so facade calls in
\* flight cannot affect one another or a lazy accessor: the model runs them one
\* at a time, and, the callers being interchangeable, on the first caller.
Ready(t) == t = 1 /\ \A u \in Tasks : task[u].pc = "idle"

\* The lazy accessors share their record's cache: calls of them overlap in
\* every way.
ReadyLazy(t) ==
    /\ task[t].pc = "idle"
    /\ \A u \in Tasks : task[u].pc = "idle" \/ task[u].op \in LazyOps

\* What the server may answer: any body with status 200, and each of the
\* sample bodies with the other success status and with a failure status.
Responses == ({200} \X Bodies) \cup ({201, 404} \X ErrBodies)

Limits == {1, 2, DefaultLimit}

\* The result as the caller holds it: the records replace the payload elements.
Held(out) == [out EXCEPT !.elems = <<>>]

\* n records returned, the j-th of them (none if j = 0) with identity ref.
Refs(n, j, ref) == [i \in 1..n |-> IF i = j THEN ref ELSE 0]

\* Which of n Images returned the model may start to follow: none, or any
\* while it follows none.
FollowImage(n) == IF image.ref = 0 THEN 0..n ELSE {0}

\* The same for n Comments returned.
FollowComment(n) == IF comment.live THEN {0} ELSE 0..n

\* A call suspended at its (last) request.
Awaiting(op, target) ==
    [NoCall EXCEPT !.pc = "await", !.op = op, !.target = target, !.calls = 1]

\* Caller t is suspended in call c.
Suspend(t, c) ==
    /\ task' = [task EXCEPT ![t] = c]
    /\ ended' = NoCall

\* The call c of caller t ends, with outcome out and records refs.
Return(t, c, out, refs) ==
    /\ task' = [task EXCEPT ![t] = NoCall]
    /\ ended' = [c EXCEPT !.pc = "done", !.res = Held(out), !.refs = refs]

\* The call of caller t, with response r = <<status, body>> received.
Got(t, r) == [task[t] EXCEPT !.resp = Shape(r[1], r[2])]

\* The identity of the Image followed; the Images Comment.get_post fetches
\* are FollowedRef + 1, FollowedRef + 2, ... in the order fetched.
FollowedRef == 1

\* n Images built from elems, the j-th of which the model starts to follow.
NewImages(elems, j) ==
    image' = IF j = 0 THEN image ELSE GelbooruImage(elems[j], FollowedRef)

\* ------------------------------------------------------------- get_post
get_post_call(t) ==
    /\ Ready(t)
    /\ Suspend(t, Awaiting("get_post", 0))
    /\ UNCHANGED <<image, comment, made>>

get_post_resume(t) ==
    /\ task[t].pc = "await" /\ task[t].op = "get_post"
    /\ \E r \in Responses :
        LET out == get_post(r[1], r[2])
            n   == Len(out.elems)
        IN \E j \in FollowImage(n) :
            /\ NewImages(out.elems, j)
            /\ Return(t, Got(t, r), out, Refs(n, j, FollowedRef))
    /\ UNCHANGED <<comment, made>>

\* --------------------------------------------- search_posts, random_post
\* A direct call asks for the default page, 0.
search_posts_call(t, limit) ==
    /\ Ready(t)
    /\ Suspend(t, [Awaiting("search_posts", 0) EXCEPT !.limit = limit])
    /\ UNCHANGED <<image, comment, made>>

\* The resumption of search_posts, called directly or by random_post (which
\* returns what search_posts returns).
search_posts_resume(t) ==
    /\ task[t].pc = "await" /\ task[t].op \in {"search_posts", "random_post"}
    /\ \E r \in Responses :
        LET out == search_posts(r[1], r[2], task[t].limit)
            n   == Len(out.elems)
        IN \E j \in FollowImage(n) :
            /\ NewImages(out.elems, j)
            /\ Return(t, Got(t, r), out, Refs(n, j, FollowedRef))
    /\ UNCHANGED <<comment, made>>

random_post_call(t) ==
    /\ Ready(t)
    /\ Suspend(t, [Awaiting("random_post", 0) EXCEPT !.pc = "probe", !.limit = 1])
    /\ UNCHANGED <<image, comment, made>>

\* The resumption after the count probe: it ends the call, or draws the offset
\* and issues the request of search_posts(limit=1, page=offset).
random_post_resume(t) ==
    /\ task[t].pc = "probe" /\ task[t].op = "random_post"
    /\ \E r \in Responses :
        LET out == random_post(r[1], r[2]) IN
        IF out.k = "offset"
        THEN \E offset \in Offsets(r[2].count) :
                Suspend(t, [Got(t, r) EXCEPT !.pc = "await", !.page = offset, !.limit = 1,
                                             !.calls = @ + 1,
                                             !.count = Reported(r[1], r[2])])
        ELSE Return(t, [Got(t, r) EXCEPT !.count = Reported(r[1], r[2])], out, <<>>)
    /\ UNCHANGED <<image, comment, made>>

\* ------------------------------------------------------------- tag_list
tag_list_call(t) ==
    /\ Ready(t)
    /\ Suspend(t, [Awaiting("tag_list", 0) EXCEPT !.limit = DefaultLimit])
    /\ UNCHANGED <<image, comment, made>>

\* A GelbooruTag has no lazy state: the tags returned are only counted.
tag_list_resume(t) ==
    /\ task[t].pc = "await" /\ task[t].op = "tag_list"
    /\ \E r \in Responses :
        LET out == tag_list(r[1], r[2]) IN
        Return(t, Got(t, r), out, Refs(Len(out.elems), 0, 0))
    /\ UNCHANGED <<image, comment, made>>

\* ----------------------------------------------------------- is_deleted
is_deleted_call(t, image_md5) ==
    /\ Ready(t)
    /\ Suspend(t, [Awaiting("is_deleted", 0) EXCEPT !.md5 = image_md5])
    /\ UNCHANGED <<image, comment, made>>

is_deleted_resume(t) ==
    /\ task[t].pc = "await" /\ task[t].op = "is_deleted"
    /\ \E r \in Responses :
        Return(t, Got(t, r), is_deleted(r[1], r[2], task[t].md5), <<>>)
    /\ UNCHANGED <<image, comment, made>>

\* --------------------------------------------------------- get_comments
\* Gelbooru.get_comments(post) with an integer post id.
get_comments_call(t) ==
    /\ Ready(t)
    /\ Suspend(t, Awaiting("get_comments", 0))
    /\ UNCHANGED <<image, comment, made>>

\* Gelbooru.get_comments(post) with the GelbooruImage followed.
get_comments_call_image(t) ==
    /\ Ready(t)
    /\ image.ref # 0
    /\ Suspend(t, Awaiting("get_comments", image.ref))
    /\ UNCHANGED <<image, comment, made>>

\* n Comments built from elems, each with backreference post (the Image the
\* call was given, or None (0) when it was given an integer), the j-th of which
\* the model starts to follow.
NewComments(elems, post, j) ==
    comment' = IF j = 0 THEN comment ELSE GelbooruComment(elems[j], post)

get_comments_resume(t) ==
    /\ task[t].pc = "await" /\ task[t].op = "get_comments"
    /\ \E r \in Responses :
        LET out == get_comments(r[1], r[2])
            n   == Len(out.elems)
        IN \E j \in FollowComment(n) :
            /\ NewComments(out.elems, task[t].target, j)
            /\ Return(t, Got(t, r), out, Refs(n, j, 1))
    /\ UNCHANGED <<image, made>>

\* ------------------------------------------------- Image.get_comments
\* GelbooruImage.get_comments up to its await: [] without a request when
\* has_comments is falsy, the cache when the cache is truthy, and otherwise the
\* request of Gelbooru.get_comments(self).
Image_get_comments_call(t) ==
    /\ ReadyLazy(t)
    /\ image.ref # 0
    /\ LET start == [NoCall EXCEPT !.op = "Image.get_comments", !.target = image.ref,
                                  !.later = image.populated,
                                  !.warm = image.populated,
                                  !.pre = image.comments]
       IN IF ~Truthy(image.has_comments)
          THEN Return(t, start, ReturnList(<<>>), <<>>)
          ELSE IF image.comments # <<>>
          THEN Return(t, start, ReturnList(<<>>), image.comments)
          ELSE Suspend(t, [start EXCEPT !.pc = "await", !.calls = 1])
    /\ UNCHANGED <<image, comment, made>>

\* The assignment self._comments = <the list returned>.
SetComments(img, refs) == [img EXCEPT !.comments = refs, !.populated = TRUE]

\* GelbooruImage.get_comments from its await on: a raise of
\* Gelbooru.get_comments passes through and assigns nothing.
Image_get_comments_resume(t) ==
    /\ task[t].pc = "await" /\ task[t].op = "Image.get_comments"
    /\ \E r \in Responses :
        LET out  == get_comments(r[1], r[2])
            n    == Len(out.elems)
        IN \E j \in FollowComment(n) :
            /\ NewComments(out.elems, image.ref, j)
            /\ image' = IF out.k = "raise" THEN image
                        ELSE SetComments(image, Refs(n, j, 1))
            /\ Return(t, Got(t, r), out, Refs(n, j, 1))
    /\ UNCHANGED made

\* --------------------------------------------------- Comment.get_post
\* GelbooruComment.get_post up to its await: the backreference when it is set,
\* otherwise the request of Gelbooru.get_post(self.post_id).
Comment_get_post_call(t) ==
    /\ ReadyLazy(t)
    /\ comment.live
    /\ LET start == [NoCall EXCEPT !.op = "Comment.get_post",
                                  !.later = comment.tried,
                                  !.warm = comment.resolved,
                                  !.pre = IF comment.post = 0 THEN <<>> ELSE <<comment.post>>]
       IN IF comment.post # 0
          THEN /\ Return(t, start, [NoOutcome EXCEPT !.k = "obj"], <<comment.post>>)
               /\ comment' = [comment EXCEPT !.tried = TRUE, !.resolved = TRUE]
          ELSE /\ Suspend(t, [start EXCEPT !.pc = "await", !.calls = 1])
               /\ comment' = comment
    /\ UNCHANGED <<image, made>>

\* A variant of SetPost that does not keep the Image: C2 must fail with it.
SetPost_forgets(c, ref) == [c EXCEPT !.tried = TRUE, !.resolved = TRUE]

\* The assignment self._post = <the Image returned>.
SetPost(c, ref) == [c EXCEPT !.post = ref, !.tried = TRUE, !.resolved = TRUE]

\* GelbooruComment.get_post from its await on.  The Image returned is a new
\* object; the model gives it an identity (the backreference holds it) and
\* does not follow it.
Comment_get_post_resume(t) ==
    /\ task[t].pc = "await" /\ task[t].op = "Comment.get_post"
    /\ \E r \in Responses :
        LET out == get_post(r[1], r[2])
            ref == FollowedRef + made + 1
        IN IF out.k = "obj"
           THEN /\ made' = made + 1
                /\ comment' = SetPost(comment, ref)
                /\ Return(t, Got(t, r), out, <<ref>>)
           ELSE /\ made' = made
                /\ comment' = [comment EXCEPT !.tried = TRUE]
                /\ Return(t, Got(t, r), out, <<>>)
    /\ UNCHANGED image

\* ------------------------------------------------------ specification
Next ==
    \E t \in Tasks :
        \/ get_post_call(t)
        \/ get_post_resume(t)
        \/ \E limit \in Limits : search_posts_call(t, limit)
        \/ search_posts_resume(t)
        \/ random_post_call(t)
        \/ random_post_resume(t)
        \/ tag_list_call(t)
        \/ tag_list_resume(t)
        \/ get_comments_call(t)
        \/ get_comments_call_image(t)
        \/ get_comments_resume(t)
        \/ \E image_md5 \in Md5s : is_deleted_call(t, image_md5)
        \/ is_deleted_resume(t)
        \/ Image_get_comments_call(t)
        \/ Image_get_comments_resume(t)
        \/ Comment_get_post_call(t)
        \/ Comment_get_post_resume(t)

Spec == Init /\ [][Next]_vars

\* ---------------------------------------------------------- properties
\* The calls the state shows: those suspended and the one that just ended.
AllCalls == {task[t] : t \in Tasks} \cup {ended}

\* The last response of call c was well-formed XML received with a success status.
WellFormed(c) == c.resp.status \in SuccessCodes /\ c.resp.wf

\* The outer key each operation expects in the parsed mapping.
OuterKey(op) ==
    CASE op \in {"get_post", "search_posts", "random_post", "is_deleted", "Comment.get_post"} -> "posts"
      [] op = "tag_list" -> "tags"
      [] OTHER -> "comments"

EmptySequence(c) == c.res.k = "list" /\ c.refs = <<>>

NotFound(c) == c.res.k = "raise" /\ c.res.exc = "GelbooruNotFoundException"

\* C1 (as claimed): once a call of Image.get_comments has completed a fetch, a
\* later call on that Image issues no network request and returns the cached
\* sequence, also when the sequence fetched is empty.
C1_NeverRefetched ==
    \A c \in AllCalls :
        c.op = "Image.get_comments" /\ c.warm
            => /\ c.calls = 0
               /\ c.pc = "done"
               /\ c.res.k = "list" /\ c.refs = c.pre

\* The Comment followed was built by the call that just ended.
JustBuilt == ended.op \in {"get_comments", "Image.get_comments"} /\ \E i \in DOMAIN ended.refs : ended.refs[i] = 1

\* What both readings of C2 say of a Comment fetched with an Image and of the
\* first get_post on a Comment fetched with an integer: the backreference is
\* the Image given to get_comments (none for an integer), get_post on a
\* Comment fetched with an Image issues no network call and returns that
\* Image, and a get_post that finds no backreference issues exactly one.
C2_Backreference ==
    /\ JustBuilt /\ ended.op = "get_comments"
           => comment.origin = ended.target /\ comment.post = ended.target
    /\ comment.origin # 0 => comment.post = comment.origin
    /\ \A c \in AllCalls :
        c.op = "Comment.get_post"
            => /\ comment.origin # 0
                   => c.calls = 0 /\ c.pc = "done" /\ c.res.k = "obj" /\ c.refs = <<comment.origin>>
               /\ c.pre = <<>> => c.calls = 1

C3_RandomPostCalls ==
    \A c \in AllCalls :
        c.op = "random_post"
            => /\ c.pc = "probe" => c.calls = 1 /\ c.count = -1
               /\ c.count = 0 => c.pc = "done" /\ c.res.k = "None" /\ c.calls = 1
               /\ c.count > 0 => c.pc \in {"await", "done"} /\ c.calls = 2 /\ c.limit = 1
               /\ c.pc = "await" => c.count > 0

\* random_post has returned None after a probe that reported zero.
C3_Witness ==
    ended.op = "random_post" /\ ended.count = 0 /\ ended.res.k = "None" /\ ended.calls = 1

\* C4 (as claimed): whatever the server returns for the page at the offset
\* picked, the result of random_post is one Image or None, never a sequence.
C4_ImageOrNone ==
    ended.op = "random_post" /\ ended.pc = "done" /\ ended.res.k # "raise"
        => ended.res.k \in {"obj", "None"}

\* C5 (as claimed): on a well-formed response without the expected outer key,
\* search_posts, tag_list and get_comments return an empty sequence and
\* get_post raises GelbooruNotFoundException.
C5_NoOuterKey ==
    ended.pc = "done" /\ WellFormed(ended) /\ ended.resp.root # OuterKey(ended.op)
        => /\ ended.op \in {"search_posts", "tag_list", "get_comments"} => EmptySequence(ended)
           /\ ended.op = "get_post" => NotFound(ended)

\* The number of results a well-formed response holds for search_posts.
Results(c) == IF c.resp.root = "posts" THEN c.resp.n ELSE 0

\* C6 (as claimed): search_posts returns one Image when limit = 1 and a
\* sequence otherwise, for every response shape.
C6_Original ==
    ended.op = "search_posts" /\ ended.pc = "done" /\ WellFormed(ended)
        => /\ ended.limit = 1 => ended.res.k = "obj"
           /\ ended.limit # 1 => ended.res.k = "list"

\* C6 (amended): search_posts with limit = 1 returns one Image, the first
\* result, when the response holds a result, and an empty sequence when it
\* holds none; with another limit it returns the sequence of all the results.
C6_SearchPostsResult ==
    ended.op = "search_posts" /\ ended.pc = "done" /\ WellFormed(ended)
        => /\ ended.limit = 1 /\ Results(ended) >= 1
               => /\ ended.res.k = "obj" /\ Len(ended.refs) = 1
                  /\ ended.refs = <<FollowedRef>> => image.has_comments = ended.resp.first
           /\ ended.limit = 1 /\ Results(ended) = 0 => EmptySequence(ended)
           /\ ended.limit # 1 => ended.res.k = "list" /\ Len(ended.refs) = Results(ended)

\* search_posts with limit = 1 has returned one Image, the first of several
\* results that differ.
C6_Witness ==
    /\ ended.op = "search_posts" /\ ended.limit = 1 /\ ended.resp.kind = "list"
    /\ ended.res.k = "obj" /\ ended.refs = <<FollowedRef>>
    /\ image.has_comments = "true" /\ ended.resp.first = "true"

\* The last response of call c had a non-success status.
Failed(c) == c.resp.status \notin SuccessCodes \cup {0}

\* C7: when a request gets a non-success status, the operation ends there (no
\* call goes on after a failed response, so none issues another request) with
\* a GelbooruException that carries the response body, having issued one
\* request (two when random_post's probe had succeeded), and the step leaves
\* the caches of the records as they were.
C7_TransportError ==
    /\ [](/\ \A t \in Tasks : ~Failed(task[t])
          /\ Failed(ended)
                => /\ ended.pc = "done"
                   /\ ended.res.k = "raise" /\ ended.res.exc = "GelbooruException"
                   /\ Len(ended.res.body) = 1
                   /\ Shape(ended.resp.status, ended.res.body[1]) = ended.resp
                   /\ ended.calls = IF ended.count > 0 THEN 2 ELSE 1)
    /\ [][Failed(ended')
            => image'.comments = image.comments /\ comment'.post = comment.post]_vars

\* Comment.get_post has ended on a failed response, the backreference still unset.
C7_Witness ==
    /\ ended.op = "Comment.get_post" /\ Failed(ended) /\ ended.res.k = "raise"
    /\ comment.live /\ comment.post = 0

\* C8 (as claimed): on a well-formed response with the outer key and without the
\* inner key, search_posts, tag_list and get_comments return an empty sequence,
\* get_post raises GelbooruNotFoundException and is_deleted returns false.
C8_NoInnerKey ==
    (/\ ended.pc = "done" /\ WellFormed(ended)
     /\ ended.resp.root = OuterKey(ended.op) /\ ended.resp.kind = "absent")
        => /\ ended.op \in {"search_posts", "tag_list", "get_comments"} => EmptySequence(ended)
           /\ ended.op = "get_post" => NotFound(ended)
           /\ ended.op = "is_deleted" => ended.res.k = "bool" /\ ~ended.res.b

\* C9 (as claimed): when the inner key maps to a single mapping, search_posts,
\* get_comments, tag_list and is_deleted handle it as exactly one record.
C9_SingleMapping ==
    (/\ ended.pc = "done" /\ WellFormed(ended)
     /\ ended.resp.root = OuterKey(ended.op) /\ ended.resp.kind = "map")
        => /\ ended.op \in {"search_posts", "get_comments", "tag_list"}
               => ended.res.k \in {"obj", "list"} /\ Len(ended.refs) = 1
           /\ ended.op = "is_deleted" => ended.res.k = "bool"

\* C10 (as claimed): however calls of a lazy accessor on one record overlap, at
\* most one network fetch is issued for its cache, and the cache is assigned at
\* most once.
C10_AtMostOneFetch ==
    /\ [](\A op \in LazyOps :
            Cardinality({t \in Tasks : task[t].pc = "await" /\ task[t].op = op}) <= 1)
    /\ [][/\ image.populated => image'.comments = image.comments
          /\ comment.resolved => comment'.post = comment.post]_vars

=============================================================================
